---- MODULE Spec2Model ----
(***************************************************************************)
(* Model of the communication and scheduling helpers of                    *)
(* imagepypelines/core/util.py: BaseTCP / TCPClient (length-prefixed       *)
(* messages over a stream socket), BaseCommThread (thread lifecycle) and   *)
(* EventQueue (heap based task scheduler).                                 *)
(***************************************************************************)
EXTENDS Integers, Sequences, FiniteSets, TLC

(***************************************************************************)
(* Bounds of the model                                                     *)
(***************************************************************************)
MaxMsgLen == 1       \* longest message text, in characters
MaxWrites == 1       \* write() calls that put bytes on the stream
MaxRecvLen == 2      \* largest length handed to a direct recvall() call
MaxCalls == 3        \* start() / stop_thread() / with-blocks of the caller
MaxTime == 2         \* latest clock reading and latest due time
MaxAdds == 3         \* add_task() calls
IntCap == 16777216   \* largest value of a length prefix that is told apart
MaxDelay == 1        \* longest delay and longest interval of a timer call
MaxQueued == 7       \* add_task() calls of the driver that fills the queue
MaxHeap == 4         \* add_task() calls of the driver that sweeps as time passes
MaxFailing == 6      \* add_task() calls of the driver whose tasks may raise
MaxDriver == 2       \* scheduling calls of the driver that uses all three

(***************************************************************************)
(* Program constants                                                       *)
(***************************************************************************)
MAX_UNACCEPTED_CONNECTIONS == 10   \* util.py:21, backlog of the listener
RecvChunk == 4096    \* util.py:42, largest request of one recv in recvall
PrefixLen == 8       \* util.py:56, bytes of the '>Q' length prefix

VARIABLES
    \* ---- BaseTCP: one writing end "w" and one reading end "r" ----
    connected,   \* TRUE once TCPClient.connect has connected the pair
    s_closed,    \* s_closed[e]: self._s of end e has been closed
    nonblock,    \* nonblock[e]: self._s of end e is in non-blocking mode
    wire,        \* bytes sent by "w" that have not reached "r" yet
    rbuf,        \* bytes that arrived at "r" and were not received yet
    consumed,    \* TRUE once some recv at "r" has taken bytes
    wr,          \* the write() call in progress at "w"
    ra,          \* the recvall() call in progress at "r"
    sent,        \* texts of the write() calls that returned
    lastWrite,   \* outcome of the latest finished write() call
    lastRead,    \* outcome of the latest finished read() call
    lastRecvall, \* outcome of the latest finished recvall() call
    lastDisc,    \* lastDisc[e]: outcome of the latest disconnect() of end e
    client,      \* the end that called TCPClient.connect, or "none"
    full,        \* TRUE while the send buffer of "w" has no room
    \* ---- TCPServer: one listener ----
    srv,         \* the listening socket and the TCPServer.connect call on it
    \* ---- Tester: one tester ----
    tt,          \* the latest exact_test() call and what it returned
    \* ---- BaseCommThread: one worker object and one calling context ----
    kind,        \* the run() of the subclass the worker was constructed from
    th,          \* the threading.Thread: "initial", "alive" or "dead"
    running,     \* the attribute self.running: "unset" or "False"
    self_t,      \* the attribute self.t: "unset", "worker" or "main"
    bpc,         \* bpc[ctx]: where run() stands in execution context ctx
    cpc,         \* what the calling context is doing
    inExit,      \* the stop_thread() in progress was called by __exit__
    scope,       \* progress of the with-block over the worker
    scopeStops,  \* stop_thread() calls made for leaving the with-block
    lastStart,   \* outcome of the latest start() call
    lastStop,    \* outcome of the latest stop_thread() call
    calls,       \* operations the calling context has begun
    stops,       \* stop_thread() calls that have returned
    \* ---- EventQueue: one scheduler driven by one execution context ----
    events,      \* self.events, the list that heapq keeps as a heap
    clock,       \* what time.monotonic() returns now
    sw,          \* the run_scheduled_tasks() call in progress, or the latest
    lastAdd,     \* outcome of the latest add_task() call
    nadds,       \* add_task() calls made so far
    inner,       \* the closure call_periodic() made: its interval and task
    per,         \* the call_periodic() call and the executions of its task
    lastLater,   \* the latest call_later() call
    \* ---- EventQueue: the same scheduler swept by two threads ----
    cs           \* cs[c]: the run_scheduled_tasks() call of thread c

tcpVars == <<connected, s_closed, nonblock, wire, rbuf, consumed, wr, ra,
             sent, lastWrite, lastRead, lastRecvall, lastDisc, client, full>>

srvVars == <<srv>>

tstVars == <<tt>>

thrVars == <<kind, th, running, self_t, bpc, cpc, inExit, scope, scopeStops,
             lastStart, lastStop, calls, stops>>

schVars == <<events, clock, sw, lastAdd, nadds, inner, per, lastLater, cs>>

vars == <<tcpVars, thrVars, schVars, srvVars, tstVars>>

Ends == {"w", "r"}

(***************************************************************************)
(* Texts and bytes.  A text is a sequence of code points; the alphabet has *)
(* a one-byte character (a, U+0061) and a two-byte one (e-acute, U+00E9).  *)
(***************************************************************************)
Chars == {97, 233}

RECURSIVE TextsOfLen(_)
TextsOfLen(n) ==
    IF n = 0 THEN {<<>>}
    ELSE {Append(t, c) : t \in TextsOfLen(n - 1), c \in Chars}

Texts == UNION {TextsOfLen(n) : n \in 0..MaxMsgLen}

\* str.encode(): UTF-8 encoding of one code point below U+0800
EncodeChar(c) ==
    IF c < 128 THEN <<c>>
    ELSE <<192 + (c \div 64), 128 + (c % 64)>>

RECURSIVE encode(_)
encode(msg) ==
    IF msg = <<>> THEN <<>>
    ELSE EncodeChar(Head(msg)) \o encode(Tail(msg))

\* the k low-order base-256 digits of n, most significant first
RECURSIVE Digits(_, _)
Digits(n, k) ==
    IF k = 0 THEN <<>> ELSE Append(Digits(n \div 256, k - 1), n % 256)

\* struct.pack('>Q', n): 8 bytes, most significant first
pack(n) == Digits(n, PrefixLen)

\* the unsigned big-endian value of a byte string, up to IntCap: a larger
\* value is represented by IntCap (no length sent in the model comes near it)
RECURSIVE BigEndian(_)
BigEndian(bytes) ==
    IF bytes = <<>> THEN 0
    ELSE LET hi == BigEndian(SubSeq(bytes, 1, Len(bytes) - 1))
             lo == bytes[Len(bytes)]
         IN  IF hi > (IntCap - lo) \div 256 THEN IntCap ELSE 256 * hi + lo

\* struct.unpack('>Q', line): a tuple of ONE value (line has 8 bytes)
unpack(line) == <<BigEndian(line)>>

Min(a, b) == IF a < b THEN a ELSE b

(***************************************************************************)
(* The stream socket                                                       *)
(***************************************************************************)
\* socket.recv(n) at the reading end: what it yields in the current state
\*   data       : at least one byte is there, it returns min(n, there) bytes
\*   eof        : the peer closed and everything was received, returns b''
\*   EBADF      : the socket was closed by this end
\*   ENOTCONN   : the socket was never connected
\*   wouldblock : nothing there, non-blocking mode: BlockingIOError
\*   wait       : nothing there, blocking mode: the call does not return yet
Recv(n) ==
    IF s_closed["r"] THEN [kind |-> "EBADF", bytes |-> <<>>]
    ELSE IF ~connected THEN [kind |-> "ENOTCONN", bytes |-> <<>>]
    ELSE IF n = 0 THEN [kind |-> "data", bytes |-> <<>>]
    ELSE IF rbuf # <<>>
        THEN [kind |-> "data", bytes |-> SubSeq(rbuf, 1, Min(n, Len(rbuf)))]
    ELSE IF s_closed["w"] /\ wire = <<>> THEN [kind |-> "eof", bytes |-> <<>>]
    ELSE IF nonblock["r"] THEN [kind |-> "wouldblock", bytes |-> <<>>]
    ELSE [kind |-> "wait", bytes |-> <<>>]

RecvRaises(k) == k \in {"EBADF", "ENOTCONN", "wouldblock"}

RecvError(k) == IF k = "wouldblock" THEN "BlockingIOError" ELSE k

AfterRecv(r) == SubSeq(rbuf, Len(r.bytes) + 1, Len(rbuf))

\* socket.sendall(data) at the writing end: "ok" or the OSError it raises.
\* With no room in the send buffer a non-blocking socket raises
\* BlockingIOError and a blocking one does not return yet ("wait").
SendallErrors ==
    IF s_closed["w"] THEN {"EBADF"}
    ELSE IF ~connected THEN {"EPIPE"}
    ELSE IF s_closed["r"] THEN {"ok", "EPIPE"}
    ELSE IF full THEN (IF nonblock["w"] THEN {"BlockingIOError"} ELSE {"wait"})
    ELSE {"ok"}

\* the send buffer of "w" fills up: the peer's window and the buffer are used
Congest ==
    /\ connected /\ ~s_closed["w"] /\ ~s_closed["r"]
    /\ ~full
    /\ full' = TRUE
    /\ UNCHANGED <<connected, s_closed, nonblock, wire, rbuf, consumed, wr, ra,
                   sent, lastWrite, lastRead, lastRecvall, lastDisc, client>>
    /\ UNCHANGED <<thrVars, schVars, srvVars, tstVars>>

\* the send buffer of "w" has room again
Drain ==
    /\ full
    /\ full' = FALSE
    /\ UNCHANGED <<connected, s_closed, nonblock, wire, rbuf, consumed, wr, ra,
                   sent, lastWrite, lastRead, lastRecvall, lastDisc, client>>
    /\ UNCHANGED <<thrVars, schVars, srvVars, tstVars>>

\* the stream carries the bytes from "w" to "r" in order, one more byte at a
\* time: a recv finds any number of them, from one byte to all that were sent
Deliver ==
    /\ wire # <<>>
    /\ ~s_closed["r"]
    /\ rbuf' = Append(rbuf, Head(wire))
    /\ wire' = Tail(wire)
    /\ UNCHANGED <<client, full, connected, s_closed, nonblock, consumed, wr, ra,
                   sent, lastWrite, lastRead, lastRecvall, lastDisc>>
    /\ UNCHANGED <<thrVars, schVars, srvVars, tstVars>>

(***************************************************************************)
(* TCPClient.connect: end e is the client, the other end is its peer       *)
(***************************************************************************)
\* a connect that leaves the socket in blocking mode
connect_blocking(e) ==
    /\ ~connected
    /\ ~s_closed["w"] /\ ~s_closed["r"]
    /\ connected' = TRUE
    /\ client' = e
    /\ UNCHANGED <<full, nonblock, s_closed, wire, rbuf, consumed, wr, ra,
                   sent, lastWrite, lastRead, lastRecvall, lastDisc>>
    /\ UNCHANGED <<thrVars, schVars, srvVars, tstVars>>

connect(e) ==
    /\ ~connected
    /\ ~s_closed["w"] /\ ~s_closed["r"]
    /\ connected' = TRUE
    /\ nonblock' = [nonblock EXCEPT ![e] = TRUE]
    /\ client' = e
    /\ UNCHANGED <<full, s_closed, wire, rbuf, consumed, wr, ra,
                   sent, lastWrite, lastRead, lastRecvall, lastDisc>>
    /\ UNCHANGED <<thrVars, schVars, srvVars, tstVars>>

(***************************************************************************)
(* BaseTCP.disconnect                                                      *)
(***************************************************************************)
\* disconnect() has been called on end e
Disconnected(e) == lastDisc[e].status # "none"

\* socket.close(): "ok", also on a socket that is closed already
SocketClose(wasClosed) == "ok"

\* a disconnect that fails on a handle that is closed already
disconnect_once(e) ==
    /\ lastDisc' = [lastDisc EXCEPT ![e] =
                       [status |-> IF s_closed[e] THEN "EBADF" ELSE "ok",
                        again |-> lastDisc[e].status # "none"]]
    /\ s_closed' = [s_closed EXCEPT ![e] = TRUE]
    /\ wire' = IF e = "r" THEN <<>> ELSE wire
    /\ rbuf' = IF e = "r" THEN <<>> ELSE rbuf
    /\ UNCHANGED <<client, full, connected, nonblock, consumed, wr, ra,
                   sent, lastWrite, lastRead, lastRecvall>>
    /\ UNCHANGED <<thrVars, schVars, srvVars, tstVars>>

\* a disconnect that leaves the handle open
disconnect_open(e) ==
    /\ lastDisc' = [lastDisc EXCEPT ![e] =
                       [status |-> "ok", again |-> lastDisc[e].status # "none"]]
    /\ UNCHANGED <<client, full, connected, s_closed, nonblock, wire, rbuf, consumed, wr,
                   ra, sent, lastWrite, lastRead, lastRecvall>>
    /\ UNCHANGED <<thrVars, schVars, srvVars, tstVars>>

disconnect(e) ==
    /\ lastDisc' = [lastDisc EXCEPT ![e] =
                       [status |-> SocketClose(s_closed[e]),
                        again |-> lastDisc[e].status # "none"]]
    /\ s_closed' = [s_closed EXCEPT ![e] = TRUE]
    /\ wire' = IF e = "r" THEN <<>> ELSE wire
    /\ rbuf' = IF e = "r" THEN <<>> ELSE rbuf
    /\ UNCHANGED <<client, full, connected, nonblock, consumed, wr, ra,
                   sent, lastWrite, lastRead, lastRecvall>>
    /\ UNCHANGED <<thrVars, schVars, srvVars, tstVars>>

(***************************************************************************)
(* BaseTCP.write: encode, pack, sendall(length), sendall(msg_b)            *)
(***************************************************************************)
\* a write whose prefix counts the characters of the text, not its bytes
write_length_chars(msg) ==
    /\ wr.pc = "idle"
    /\ Len(sent) < MaxWrites
    /\ \E res \in SendallErrors \ {"wait"} :
        IF res = "ok"
        THEN /\ wire' = IF s_closed["r"] THEN wire
                        ELSE wire \o pack(Len(msg))
             /\ wr' = [pc |-> "payload", msg |-> msg, disc |-> Disconnected("w")]
             /\ UNCHANGED lastWrite
        ELSE /\ lastWrite' = [status |-> res, bytes |-> 0,
                              disc |-> Disconnected("w")]
             /\ UNCHANGED <<wire, wr>>
    /\ UNCHANGED <<client, full, connected, s_closed, nonblock, rbuf, consumed, ra,
                   sent, lastRead, lastRecvall, lastDisc>>
    /\ UNCHANGED <<thrVars, schVars, srvVars, tstVars>>

write_length(msg) ==
    /\ wr.pc = "idle"
    /\ Len(sent) < MaxWrites
    /\ \E res \in SendallErrors \ {"wait"} :
        IF res = "ok"
        THEN /\ wire' = IF s_closed["r"] THEN wire
                        ELSE wire \o pack(Len(encode(msg)))
             /\ wr' = [pc |-> "payload", msg |-> msg, disc |-> Disconnected("w")]
             /\ UNCHANGED lastWrite
        ELSE /\ lastWrite' = [status |-> res, bytes |-> 0,
                              disc |-> Disconnected("w")]
             /\ UNCHANGED <<wire, wr>>
    /\ UNCHANGED <<client, full, connected, s_closed, nonblock, rbuf, consumed, ra,
                   sent, lastRead, lastRecvall, lastDisc>>
    /\ UNCHANGED <<thrVars, schVars, srvVars, tstVars>>

write_payload ==
    /\ wr.pc = "payload"
    /\ \E res \in SendallErrors \ {"wait"} :
        /\ wire' = IF res = "ok" /\ ~s_closed["r"]
                   THEN wire \o encode(wr.msg) ELSE wire
        /\ lastWrite' =
               [status |-> res,
                bytes |-> IF res = "ok" THEN PrefixLen + Len(encode(wr.msg))
                          ELSE PrefixLen,
                disc |-> wr.disc]
        /\ sent' = IF res = "ok" THEN Append(sent, wr.msg) ELSE sent
    /\ wr' = [pc |-> "idle", msg |-> <<>>, disc |-> FALSE]
    /\ UNCHANGED <<client, full, connected, s_closed, nonblock, rbuf, consumed, ra,
                   lastRead, lastRecvall, lastDisc>>
    /\ UNCHANGED <<thrVars, schVars, srvVars, tstVars>>

(***************************************************************************)
(* BaseTCP.recvall(c, length), called directly on the reading socket       *)
(***************************************************************************)
recvall_call(length) ==
    /\ ra.pc = "idle"
    /\ ra' = [pc |-> "loop", length |-> length, data |-> <<>>]
    /\ UNCHANGED <<client, full, connected, s_closed, nonblock, wire, rbuf, consumed, wr,
                   sent, lastWrite, lastRead, lastRecvall, lastDisc>>
    /\ UNCHANGED <<thrVars, schVars, srvVars, tstVars>>

recvall_loop ==
    /\ ra.pc = "loop"
    /\ IF Len(ra.data) < ra.length
       THEN LET r == Recv(Min(ra.length - Len(ra.data), RecvChunk)) IN
            /\ r.kind # "wait"
            /\ IF RecvRaises(r.kind)
               THEN /\ lastRecvall' = [status |-> RecvError(r.kind),
                                       length |-> ra.length, data |-> ra.data]
                    /\ ra' = [pc |-> "idle", length |-> 0, data |-> <<>>]
                    /\ UNCHANGED <<rbuf, consumed>>
               ELSE /\ ra' = [ra EXCEPT !.data = @ \o r.bytes]
                    /\ rbuf' = AfterRecv(r)
                    /\ consumed' = (consumed \/ r.bytes # <<>>)
                    /\ UNCHANGED lastRecvall
       ELSE /\ lastRecvall' = [status |-> "ok", length |-> ra.length,
                               data |-> ra.data]
            /\ ra' = [pc |-> "idle", length |-> 0, data |-> <<>>]
            /\ UNCHANGED <<rbuf, consumed>>
    /\ UNCHANGED <<client, full, connected, s_closed, nonblock, wire, wr,
                   sent, lastWrite, lastRead, lastDisc>>
    /\ UNCHANGED <<thrVars, schVars, srvVars, tstVars>>

(***************************************************************************)
(* BaseTCP.read                                                            *)
(***************************************************************************)
\* what the statements after line 56 do with the bytes recv(8) returned:
\*   unpack raises struct.error unless it got exactly 8 bytes;
\*   "length, _ = ..." needs a tuple of two values, else ValueError;
\*   "recvall" is not a global name (it is a static method): NameError
read_after_recv(line) ==
    IF Len(line) # PrefixLen THEN "struct.error"
    ELSE IF Len(unpack(line)) # 2 THEN "ValueError"
    ELSE "NameError"

read ==
    /\ ra.pc = "idle"
    /\ LET r == Recv(PrefixLen) IN
        /\ r.kind # "wait"
        /\ lastRead' =
              [status |-> IF RecvRaises(r.kind) THEN RecvError(r.kind)
                          ELSE read_after_recv(r.bytes),
               value |-> <<>>,
               taken |-> Len(r.bytes),
               avail |-> Len(rbuf),
               nsent |-> Len(sent),
               disc |-> Disconnected("r"),
               first |-> ~consumed]
        /\ rbuf' = IF RecvRaises(r.kind) THEN rbuf ELSE AfterRecv(r)
        /\ consumed' = (consumed \/ r.bytes # <<>>)
    /\ UNCHANGED <<client, full, connected, s_closed, nonblock, wire, wr, ra,
                   sent, lastWrite, lastRecvall, lastDisc>>
    /\ UNCHANGED <<thrVars, schVars, srvVars, tstVars>>

NoCall == [status |-> "none"]

InitTCP ==
    /\ connected = FALSE
    /\ s_closed = [e \in Ends |-> FALSE]
    /\ nonblock = [e \in Ends |-> FALSE]
    /\ wire = <<>>
    /\ rbuf = <<>>
    /\ consumed = FALSE
    /\ wr = [pc |-> "idle", msg |-> <<>>, disc |-> FALSE]
    /\ ra = [pc |-> "idle", length |-> 0, data |-> <<>>]
    /\ sent = <<>>
    /\ lastWrite = NoCall
    /\ lastRead = NoCall
    /\ lastRecvall = NoCall
    /\ lastDisc = [e \in Ends |-> [status |-> "none", again |-> FALSE]]
    /\ client = "none"
    /\ full = FALSE


(***************************************************************************)
(* BaseCommThread                                                          *)
(*                                                                         *)
(* run() is supplied by the subclass.  kind says which one:                *)
(*   "pass"   the run() of BaseCommThread itself, which returns at once    *)
(*   "loop"   the loop of run()'s docstring, whose iterations complete     *)
(*   "faulty" the same loop, whose iteration may raise                     *)
(*   "hang"   a body that never looks at the flag and never returns        *)
(* A body runs in context "thread" (the thread that start() creates) or    *)
(* in context "caller" (the context that called run() directly).           *)
(***************************************************************************)
Kinds == {"pass", "loop", "faulty", "hang"}

Contexts == {"thread", "caller"}

\* threading.current_thread() in context ctx
current_thread(ctx) == IF ctx = "thread" THEN "worker" ELSE "main"

\* getattr(self.t, 'running', True): only the worker object ever gets the
\* attribute, stop_thread sets it to False
FlagRunning(thread, flag) ==
    IF thread = "worker" THEN flag # "False" ELSE TRUE

\* a join that gives up waiting: Thread.join(timeout)
Join_timeout(s) ==
    IF s = "initial" THEN "RuntimeError" ELSE "ok"

\* Thread.join() on a thread in state s
Join(s) ==
    IF s = "initial" THEN "RuntimeError"
    ELSE IF s = "alive" THEN "wait"
    ELSE "ok"

\* threading.Thread.start()
start ==
    /\ cpc = "idle"
    /\ calls < MaxCalls
    /\ calls' = calls + 1
    /\ IF th = "initial"
       THEN /\ th' = "alive"
            /\ bpc' = [bpc EXCEPT !["thread"] = "begin"]
            /\ lastStart' = "ok"
       ELSE /\ lastStart' = "RuntimeError"
            /\ UNCHANGED <<th, bpc>>
    /\ UNCHANGED <<kind, running, self_t, cpc, inExit, scope, scopeStops, lastStop>>
    /\ UNCHANGED <<tcpVars, schVars, srvVars, tstVars>>
    /\ UNCHANGED stops

\* run() returns in context ctx: the thread ends, or __enter__ returns
BodyReturns(ctx) ==
    IF ctx = "thread"
    THEN /\ th' = "dead"
         /\ bpc' = [bpc EXCEPT ![ctx] = "returned"]
         /\ UNCHANGED <<cpc, scope>>
    ELSE /\ bpc' = [bpc EXCEPT ![ctx] = "none"]
         /\ cpc' = "scope"
         /\ scope' = "inside"
         /\ UNCHANGED th

\* a raising run() that does not end its thread
BodyRaises_alive(ctx) ==
    IF ctx = "thread"
    THEN /\ bpc' = [bpc EXCEPT ![ctx] = "raised"]
         /\ UNCHANGED <<th, cpc, scope>>
    ELSE /\ bpc' = [bpc EXCEPT ![ctx] = "none"]
         /\ cpc' = "idle"
         /\ scope' = "enter_raised"
         /\ UNCHANGED th

\* run() raises in context ctx: the thread ends, or __enter__ raises and
\* the with statement is left without calling __exit__
BodyRaises(ctx) ==
    IF ctx = "thread"
    THEN /\ th' = "dead"
         /\ bpc' = [bpc EXCEPT ![ctx] = "raised"]
         /\ UNCHANGED <<cpc, scope>>
    ELSE /\ bpc' = [bpc EXCEPT ![ctx] = "none"]
         /\ cpc' = "idle"
         /\ scope' = "enter_raised"
         /\ UNCHANGED th

\* run(), first statement: self.t = threading.current_thread()
run_begin(ctx) ==
    /\ bpc[ctx] = "begin"
    /\ IF kind = "pass"
       THEN BodyReturns(ctx) /\ UNCHANGED self_t
       ELSE IF kind = "hang"
       THEN /\ bpc' = [bpc EXCEPT ![ctx] = "hang"]
            /\ UNCHANGED <<self_t, th, cpc, scope>>
       ELSE /\ self_t' = current_thread(ctx)
            /\ bpc' = [bpc EXCEPT ![ctx] = "check"]
            /\ UNCHANGED <<th, cpc, scope>>
    /\ UNCHANGED <<kind, running, inExit, scopeStops,
                   lastStart, lastStop, calls>>
    /\ UNCHANGED <<tcpVars, schVars, srvVars, tstVars>>
    /\ UNCHANGED stops

\* run(): while getattr(self.t, 'running', True):
run_check(ctx) ==
    /\ bpc[ctx] = "check"
    /\ IF FlagRunning(self_t, running)
       THEN /\ bpc' = [bpc EXCEPT ![ctx] = "work"]
            /\ UNCHANGED <<th, cpc, scope>>
       ELSE BodyReturns(ctx)
    /\ UNCHANGED <<kind, running, self_t, inExit, scopeStops,
                   lastStart, lastStop, calls>>
    /\ UNCHANGED <<tcpVars, schVars, srvVars, tstVars>>
    /\ UNCHANGED stops

\* run(): one iteration of the loop body
run_work(ctx) ==
    /\ bpc[ctx] = "work"
    /\ \/ /\ bpc' = [bpc EXCEPT ![ctx] = "check"]
          /\ UNCHANGED <<th, cpc, scope>>
       \/ /\ kind = "faulty"
          /\ BodyRaises(ctx)
    /\ UNCHANGED <<kind, running, self_t, inExit, scopeStops,
                   lastStart, lastStop, calls>>
    /\ UNCHANGED <<tcpVars, schVars, srvVars, tstVars>>
    /\ UNCHANGED stops

\* __enter__: self.run()
enter ==
    /\ cpc = "idle"
    /\ calls < MaxCalls
    /\ calls' = calls + 1
    /\ cpc' = "enter"
    /\ bpc' = [bpc EXCEPT !["caller"] = "begin"]
    /\ scope' = "entering"
    /\ scopeStops' = 0
    /\ UNCHANGED <<kind, th, running, self_t, inExit, lastStart, lastStop>>
    /\ UNCHANGED <<tcpVars, schVars, srvVars, tstVars>>
    /\ UNCHANGED stops

\* a stop_thread that flips the flag instead of clearing it
stop_thread_flag_flip ==
    /\ running' = IF running = "False" THEN "unset" ELSE "False"
    /\ cpc' = "join"
    /\ lastStop' = "pending"

\* stop_thread(), up to the join: self.running = False
stop_thread_flag ==
    /\ running' = "False"
    /\ cpc' = "join"
    /\ lastStop' = "pending"

\* stop_thread() called by the calling context
stop_thread ==
    /\ cpc = "idle"
    /\ calls < MaxCalls
    /\ calls' = calls + 1
    /\ stop_thread_flag
    /\ inExit' = FALSE
    /\ UNCHANGED <<kind, th, self_t, bpc, scope, scopeStops,
                   lastStart>>
    /\ UNCHANGED <<tcpVars, schVars, srvVars, tstVars>>
    /\ UNCHANGED stops

\* the with-block ends (normally or by an exception): __exit__ calls
\* self.stop_thread()
exit ==
    /\ cpc = "scope"
    /\ stop_thread_flag
    /\ inExit' = TRUE
    /\ scope' = "exiting"
    /\ scopeStops' = scopeStops + 1
    /\ UNCHANGED <<kind, th, self_t, bpc, lastStart, calls>>
    /\ UNCHANGED <<tcpVars, schVars, srvVars, tstVars>>
    /\ UNCHANGED stops

\* a stop_thread that does not wait for the thread
stop_thread_nojoin ==
    /\ cpc = "join"
    /\ lastStop' = IF th = "initial" THEN "RuntimeError" ELSE "returned"
    /\ stops' = IF th = "initial" THEN stops ELSE stops + 1
    /\ cpc' = "idle"
    /\ inExit' = FALSE
    /\ scope' = IF inExit THEN "left" ELSE scope
    /\ UNCHANGED <<kind, th, running, self_t, bpc, scopeStops,
                   lastStart, calls>>
    /\ UNCHANGED <<tcpVars, schVars, srvVars, tstVars>>

\* stop_thread(): self.join()
stop_thread_join ==
    /\ cpc = "join"
    /\ Join(th) # "wait"
    /\ lastStop' = IF Join(th) = "ok" THEN "returned" ELSE Join(th)
    /\ stops' = IF Join(th) = "ok" THEN stops + 1 ELSE stops
    /\ cpc' = "idle"
    /\ inExit' = FALSE
    /\ scope' = IF inExit THEN "left" ELSE scope
    /\ UNCHANGED <<kind, th, running, self_t, bpc, scopeStops,
                   lastStart, calls>>
    /\ UNCHANGED <<tcpVars, schVars, srvVars, tstVars>>

InitThread ==
    /\ kind \in Kinds
    /\ th = "initial"
    /\ running = "unset"
    /\ self_t = "unset"
    /\ bpc = [ctx \in Contexts |-> "none"]
    /\ cpc = "idle"
    /\ inExit = FALSE
    /\ scope = "none"
    /\ scopeStops = 0
    /\ lastStart = "none"
    /\ lastStop = "none"
    /\ calls = 0
    /\ stops = 0

(***************************************************************************)
(* EventQueue                                                              *)
(*                                                                         *)
(* An event is the namedtuple (event_time, task); the field seq is not in  *)
(* the program: it numbers the add_task calls, for stating the order in    *)
(* which events were scheduled.  Tasks are distinct functions; "boom"      *)
(* raises when it is called.  The task "inner" is the closure that         *)
(* call_periodic defines; the variable inner holds what it closes over.    *)
(***************************************************************************)
Tasks == {"f0", "f1", "boom"}

TaskRaises(task) == task = "boom"

Times == 0..MaxTime

\* x < y on two ScheduledEvent tuples, as PyObject_RichCompareBool gives it:
\* 1 (true), 0 (false) or -1 (TypeError).  Tuples are compared item by item:
\* the times decide unless they are equal, then the tasks are compared, and
\* two different functions have no order.
EventLess(x, y) ==
    IF x.event_time # y.event_time
    THEN (IF x.event_time < y.event_time THEN 1 ELSE 0)
    ELSE IF x.task = y.task THEN 0
    ELSE -1

\* positions are counted from 0 as in heapq
At(arr, pos) == arr[pos + 1]

Swap(arr, i, j) ==
    [arr EXCEPT ![i + 1] = arr[j + 1], ![j + 1] = arr[i + 1]]

\* heapq's siftdown: move arr[pos] towards the root while it is smaller than
\* its parent; a failed comparison leaves the list as it is at that moment
RECURSIVE siftdown(_, _, _)
siftdown(arr, startpos, pos) ==
    IF pos > startpos
    THEN LET parentpos == (pos - 1) \div 2
             cmp == EventLess(At(arr, pos), At(arr, parentpos))
         IN  IF cmp < 0 THEN [heap |-> arr, err |-> TRUE]
             ELSE IF cmp = 0 THEN [heap |-> arr, err |-> FALSE]
             ELSE siftdown(Swap(arr, pos, parentpos), startpos, parentpos)
    ELSE [heap |-> arr, err |-> FALSE]

\* heapq's siftup: bubble the smaller child up until a leaf is reached, then
\* sift the moved item down from there
RECURSIVE siftup(_, _, _)
siftup(arr, startpos, pos) ==
    LET endpos == Len(arr)
        left == 2 * pos + 1
    IN  IF pos < endpos \div 2
        THEN LET cmp == IF left + 1 < endpos
                        THEN EventLess(At(arr, left), At(arr, left + 1))
                        ELSE 1
                 childpos == IF cmp = 0 THEN left + 1 ELSE left
             IN  IF cmp < 0 THEN [heap |-> arr, err |-> TRUE]
                 ELSE siftup(Swap(arr, childpos, pos), startpos, childpos)
        ELSE siftdown(arr, startpos, pos)

\* heapq.heappush(heap, item)
heappush(heap, item) == siftdown(Append(heap, item), 0, Len(heap))

NoEvent == [event_time |-> -1, task |-> "none", seq |-> 0]

\* a pop that hands out the root and leaves it in the list
heappop_peek(heap) ==
    [heap |-> heap, err |-> FALSE, item |-> heap[1]]

\* heapq.heappop(heap) on a non-empty heap
heappop(heap) ==
    LET lastelt == heap[Len(heap)]
        rest == SubSeq(heap, 1, Len(heap) - 1)
    IN  IF rest = <<>>
        THEN [heap |-> rest, err |-> FALSE, item |-> lastelt]
        ELSE LET r == siftup([rest EXCEPT ![1] = lastelt], 0, 0)
             IN  [heap |-> r.heap, err |-> r.err,
                  item |-> IF r.err THEN NoEvent ELSE heap[1]]

\* every event of the list is due at time and holds another task than the rest
SameTimeDistinct(evs, time) ==
    /\ \A i \in 1..Len(evs) : evs[i].event_time = time
    /\ \A i, j \in 1..Len(evs) : evs[i].task = evs[j].task => i = j

\* time passes
Tick ==
    /\ clock < MaxTime
    /\ clock' = clock + 1
    /\ UNCHANGED <<events, sw, lastAdd, nadds, inner, per, lastLater>>
    /\ UNCHANGED <<tcpVars, thrVars, srvVars, tstVars, cs>>

\* a push that puts the event into the list twice
PushEvent_twice(event_time, task) ==
    /\ nadds' = nadds + 1
    /\ LET ev == [event_time |-> event_time, task |-> task, seq |-> nadds + 1]
           r == heappush(heappush(events, ev).heap, ev)
       IN  /\ events' = r.heap
           /\ lastAdd' = [status |-> IF r.err THEN "TypeError" ELSE "ok",
                          uniform |-> SameTimeDistinct(Append(events, ev),
                                                       event_time)]

\* line 222: heappush(self.events, ScheduledEvent(event_time, task))
PushEvent(event_time, task) ==
    /\ nadds' = nadds + 1
    /\ LET ev == [event_time |-> event_time, task |-> task, seq |-> nadds + 1]
           r == heappush(events, ev)
       IN  /\ events' = r.heap
           /\ lastAdd' = [status |-> IF r.err THEN "TypeError" ELSE "ok",
                          uniform |-> SameTimeDistinct(Append(events, ev),
                                                       event_time)]

\* add_task(event_time, task), called by the context that drives the queue
add_task(event_time, task) ==
    /\ sw.pc = "idle"
    /\ PushEvent(event_time, task)
    /\ UNCHANGED <<clock, sw, inner, per, lastLater>>
    /\ UNCHANGED <<tcpVars, thrVars, srvVars, tstVars, cs>>

\* a call_later that runs a task of delay 0 itself instead of queueing it
call_later_eager(delay, task) ==
    /\ sw.pc = "idle"
    /\ IF delay = 0
       THEN /\ nadds' = nadds + 1
            /\ sw' = [sw EXCEPT !.ran = Append(@, [event_time |-> clock,
                                                   task |-> task,
                                                   seq |-> nadds + 1])]
            /\ UNCHANGED <<events, lastAdd>>
       ELSE PushEvent(clock + delay, task) /\ UNCHANGED sw
    /\ lastLater' = [seq |-> nadds + 1, at |-> clock, delay |-> delay,
                     task |-> task]
    /\ UNCHANGED <<clock, inner, per>>
    /\ UNCHANGED <<tcpVars, thrVars, srvVars, tstVars, cs>>

\* call_later(delay, task): add_task(time.monotonic() + delay, task)
call_later(delay, task) ==
    /\ sw.pc = "idle"
    /\ PushEvent(clock + delay, task)
    /\ lastLater' = [seq |-> nadds + 1, at |-> clock, delay |-> delay,
                     task |-> task]
    /\ UNCHANGED <<clock, sw, inner, per>>
    /\ UNCHANGED <<tcpVars, thrVars, srvVars, tstVars, cs>>

\* call_periodic(delay, interval, task): defines inner, which closes over
\* interval and task, and calls call_later(delay, inner)
call_periodic(delay, interval, task) ==
    /\ sw.pc = "idle"
    /\ inner.task = "none"
    /\ inner' = [interval |-> interval, task |-> task]
    /\ per' = [at |-> clock, delay |-> delay, execs |-> 0, drift |-> 0]
    /\ PushEvent(clock + delay, "inner")
    /\ lastLater' = [seq |-> nadds + 1, at |-> clock, delay |-> delay,
                     task |-> "inner"]
    /\ UNCHANGED <<clock, sw>>
    /\ UNCHANGED <<tcpVars, thrVars, srvVars, tstVars, cs>>

\* run_scheduled_tasks(), line 215: t = time.monotonic()
run_scheduled_tasks ==
    /\ sw.pc = "idle"
    /\ sw' = [pc |-> "check", t |-> clock, entry |-> events, ran |-> <<>>,
              event |-> NoEvent, status |-> "running"]
    /\ UNCHANGED <<events, clock, lastAdd, nadds, inner, per, lastLater>>
    /\ UNCHANGED <<tcpVars, thrVars, srvVars, tstVars, cs>>

\* lines 216-217: the loop test, which reads the clock again, and heappop
sweep_check ==
    /\ sw.pc = "check"
    /\ IF events # <<>> /\ events[1].event_time <= clock
       THEN LET r == heappop(events) IN
            /\ events' = r.heap
            /\ sw' = IF r.err
                     THEN [sw EXCEPT !.pc = "idle", !.status = "TypeError"]
                     ELSE [sw EXCEPT !.pc = "task", !.event = r.item]
       ELSE /\ sw' = [sw EXCEPT !.pc = "idle", !.status = "returned"]
            /\ UNCHANGED events
    /\ UNCHANGED <<clock, lastAdd, nadds, inner, per, lastLater>>
    /\ UNCHANGED <<tcpVars, thrVars, srvVars, tstVars, cs>>

\* line 218: event.task(); an exception of the task leaves the call.
\* The task inner (lines 230-232) calls the task it closes over and then
\* call_later(interval, inner); the calls it makes are counted up to MaxAdds.
sweep_task ==
    /\ sw.pc = "task"
    /\ IF sw.event.task # "inner"
       THEN /\ sw' = IF TaskRaises(sw.event.task)
                     THEN [sw EXCEPT !.pc = "idle", !.status = "raised",
                                     !.ran = Append(@, sw.event),
                                     !.event = NoEvent]
                     ELSE [sw EXCEPT !.pc = "check",
                                     !.ran = Append(@, sw.event),
                                     !.event = NoEvent]
            /\ UNCHANGED <<events, lastAdd, nadds, per, lastLater>>
       ELSE /\ per' = [per EXCEPT !.execs = @ + 1,
                                  !.drift = @ + clock - sw.event.event_time]
            /\ IF TaskRaises(inner.task)
               THEN /\ sw' = [sw EXCEPT !.pc = "idle", !.status = "raised",
                                        !.ran = Append(@, sw.event),
                                        !.event = NoEvent]
                    /\ UNCHANGED <<events, lastAdd, nadds, lastLater>>
               ELSE /\ nadds < MaxAdds
                    /\ PushEvent(clock + inner.interval, "inner")
                    /\ lastLater' = [seq |-> nadds + 1, at |-> clock,
                                     delay |-> inner.interval,
                                     task |-> "inner"]
                    /\ sw' = IF lastAdd'.status = "TypeError"
                             THEN [sw EXCEPT !.pc = "idle",
                                             !.status = "TypeError",
                                             !.ran = Append(@, sw.event),
                                             !.event = NoEvent]
                             ELSE [sw EXCEPT !.pc = "check",
                                             !.ran = Append(@, sw.event),
                                             !.event = NoEvent]
    /\ UNCHANGED <<clock, inner>>
    /\ UNCHANGED <<tcpVars, thrVars, srvVars, tstVars, cs>>

(***************************************************************************)
(* run_scheduled_tasks() called by two threads on one EventQueue.  The     *)
(* class holds no lock.  A heappush or a heappop is one call into C and    *)
(* runs under the interpreter lock without giving it up; between the loop  *)
(* test of line 216 and the heappop of line 217, and around the task, the  *)
(* other thread may run.                                                   *)
(***************************************************************************)
Sweepers == {"s1", "s2"}

\* a thread calls run_scheduled_tasks()
shared_call(c) ==
    /\ cs[c].pc = "idle"
    /\ cs' = [cs EXCEPT ![c] = [pc |-> "test", event |-> NoEvent,
                                status |-> "running"]]
    /\ UNCHANGED <<events, clock, sw, lastAdd, nadds, inner, per, lastLater>>
    /\ UNCHANGED <<tcpVars, thrVars, srvVars, tstVars>>

\* line 216: while self.events and self.events[0].event_time <= now
shared_test(c) ==
    /\ cs[c].pc = "test"
    /\ cs' = IF events # <<>> /\ events[1].event_time <= clock
             THEN [cs EXCEPT ![c].pc = "pop"]
             ELSE [cs EXCEPT ![c].pc = "idle", ![c].status = "returned"]
    /\ UNCHANGED <<events, clock, sw, lastAdd, nadds, inner, per, lastLater>>
    /\ UNCHANGED <<tcpVars, thrVars, srvVars, tstVars>>

\* line 217: event = heappop(self.events), IndexError on an empty list
shared_pop(c) ==
    /\ cs[c].pc = "pop"
    /\ IF events = <<>>
       THEN /\ cs' = [cs EXCEPT ![c].pc = "idle", ![c].status = "IndexError"]
            /\ UNCHANGED events
       ELSE LET r == heappop(events) IN
            /\ events' = r.heap
            /\ cs' = IF r.err
                     THEN [cs EXCEPT ![c].pc = "idle",
                                     ![c].status = "TypeError"]
                     ELSE [cs EXCEPT ![c].pc = "task", ![c].event = r.item]
    /\ UNCHANGED <<clock, sw, lastAdd, nadds, inner, per, lastLater>>
    /\ UNCHANGED <<tcpVars, thrVars, srvVars, tstVars>>

\* line 218: event.task()
shared_task(c) ==
    /\ cs[c].pc = "task"
    /\ cs' = IF TaskRaises(cs[c].event.task)
             THEN [cs EXCEPT ![c].pc = "idle", ![c].status = "raised",
                             ![c].event = NoEvent]
             ELSE [cs EXCEPT ![c].pc = "test", ![c].event = NoEvent]
    /\ UNCHANGED <<events, clock, sw, lastAdd, nadds, inner, per, lastLater>>
    /\ UNCHANGED <<tcpVars, thrVars, srvVars, tstVars>>

InitSched ==
    /\ events = <<>>
    /\ clock = 0
    /\ sw = [pc |-> "idle", t |-> 0, entry |-> <<>>, ran |-> <<>>,
             event |-> NoEvent, status |-> "none"]
    /\ lastAdd = [status |-> "none", uniform |-> FALSE]
    /\ nadds = 0
    /\ inner = [interval |-> 0, task |-> "none"]
    /\ per = [at |-> 0, delay |-> 0, execs |-> 0, drift |-> 0]
    /\ lastLater = [seq |-> 0, at |-> 0, delay |-> 0, task |-> "none"]
    /\ cs = [c \in Sweepers |->
                [pc |-> "idle", event |-> NoEvent, status |-> "none"]]

(***************************************************************************)
(* TCPServer                                                               *)
(*                                                                         *)
(* The listener is one socket.  Clients that connect to it are queued by   *)
(* the system up to the backlog; the class has no method that accepts.     *)
(***************************************************************************)
Hosts == {"127.0.0.1", "0.0.0.0"}

\* port 0 asks the system for a port
Ports == {0, 5000}

\* the ports the system chooses from
Ephemeral == {49152, 49153}

NoAddr == [host |-> "none", port |-> -1]

\* TCPServer.connect(host, port), line 124: self._s.bind((host, port))
server_connect(host, port) ==
    /\ srv.pc = "idle"
    /\ \E res \in IF srv.closed THEN {"EBADF"}
                  ELSE IF srv.addr # NoAddr THEN {"EINVAL"}
                  ELSE IF port # 0 THEN {"ok", "EADDRINUSE"}
                  ELSE {"ok"} :
       \E chosen \in IF port = 0 THEN Ephemeral ELSE {port} :
          srv' = IF res = "ok"
                 THEN [srv EXCEPT !.pc = "bound",
                                  !.addr = [host |-> host, port |-> chosen],
                                  !.req = [host |-> host, port |-> port],
                                  !.status = "running"]
                 ELSE [srv EXCEPT !.req = [host |-> host, port |-> port],
                                  !.status = res]
    /\ UNCHANGED <<tcpVars, thrVars, schVars, tstVars>>

\* line 125: self._s.setblocking(0)
server_setblocking ==
    /\ srv.pc = "bound"
    /\ srv' = [srv EXCEPT !.pc = "nonblock", !.nonblock = TRUE]
    /\ UNCHANGED <<tcpVars, thrVars, schVars, tstVars>>

\* a listener whose backlog is one connection
server_listen_one ==
    /\ srv.pc = "nonblock"
    /\ srv' = [srv EXCEPT !.pc = "idle", !.listening = TRUE,
                          !.backlog = 1, !.status = "ok"]
    /\ UNCHANGED <<tcpVars, thrVars, schVars, tstVars>>

\* line 126: self._s.listen(MAX_UNACCEPTED_CONNECTIONS), and return self
server_listen ==
    /\ srv.pc = "nonblock"
    /\ srv' = [srv EXCEPT !.pc = "idle", !.listening = TRUE,
                          !.backlog = MAX_UNACCEPTED_CONNECTIONS,
                          !.status = "ok"]
    /\ UNCHANGED <<tcpVars, thrVars, schVars, tstVars>>

\* a client connects: the system queues the connection for an accept
Arrive ==
    /\ srv.listening
    /\ srv.pending < srv.backlog
    /\ srv' = [srv EXCEPT !.pending = @ + 1]
    /\ UNCHANGED <<tcpVars, thrVars, schVars, tstVars>>

\* BaseTCP.disconnect() on the listener: the socket is closed and the
\* system drops what was queued on it
server_disconnect ==
    /\ srv.pc = "idle"
    /\ srv' = [srv EXCEPT !.closed = TRUE, !.listening = FALSE,
                          !.pending = 0]
    /\ UNCHANGED <<tcpVars, thrVars, schVars, tstVars>>

\* TCPServer.__init__: the socket of BaseTCP with SO_REUSEADDR set
InitServer ==
    srv = [pc |-> "idle", closed |-> FALSE, reuse |-> TRUE, addr |-> NoAddr,
           nonblock |-> FALSE, listening |-> FALSE, backlog |-> 0,
           pending |-> 0, req |-> NoAddr, status |-> "none"]

(***************************************************************************)
(* Tester                                                                  *)
(*                                                                         *)
(* Values are written as strings, "None" is None.  A target takes one      *)
(* argument a and one argument b that has a default:                       *)
(*   "first"  returns a, "second" returns b, "raiser" raises.              *)
(* A call passes a and, or not, the keyword argument b.                    *)
(***************************************************************************)
Values == {"0", "1", "None"}

Targets == {"first", "second", "raiser"}

\* the name of the keyword argument and the default of b
KeyName == "b"

Default == "d"

\* kwargs of a call: none, or {b: value}
KwArgs == {"absent"} \cup Values

\* target(a, b)
target_call(target, a, b) ==
    IF target = "raiser" THEN [raised |-> TRUE, value |-> "None"]
    ELSE [raised |-> FALSE, value |-> IF target = "first" THEN a ELSE b]

\* __run_target: self.target(*args, *kwargs) hands the names of the keyword
\* arguments over as positional arguments; an exception is logged and the
\* method then returns None
run_target(target, a, kw) ==
    target_call(target, a, IF kw = "absent" THEN Default ELSE KeyName).value

\* Tester(target).exact_test(desired_output, a) or (desired_output, a, b=kw)
exact_test(target, desired_output, a, kw) ==
    /\ LET out == run_target(target, a, kw) IN
       tt' = [status |-> "returned", target |-> target,
              desired_output |-> desired_output, a |-> a, kw |-> kw,
              out |-> out,
              result |-> IF out # desired_output THEN TRUE ELSE FALSE]
    /\ UNCHANGED <<tcpVars, thrVars, schVars, srvVars>>

InitTester ==
    tt = [status |-> "none", target |-> "none", desired_output |-> "None",
          a |-> "None", kw |-> "absent", out |-> "None", result |-> FALSE]

(***************************************************************************)
(* Specifications: one per component, each from the state after            *)
(* construction of all of them                                             *)
(***************************************************************************)
Init == InitTCP /\ InitThread /\ InitSched /\ InitServer /\ InitTester

\* the specifications of the transport and of the scheduler need one worker
InitPass == Init /\ kind = "pass"

\* the pair exchanging messages with write() and read()
NextTCP ==
    \/ \E e \in Ends : connect(e)
    \/ \E e \in Ends : disconnect(e)
    \/ \E msg \in Texts : write_length(msg)
    \/ write_payload
    \/ Deliver
    \/ read

SpecTCP == InitPass /\ [][NextTCP]_vars

\* the pair while both ends stay open and the send buffer fills and drains;
\* the writer stops writing once a write has ended with would-block
NextNonblock ==
    \/ \E e \in Ends : connect(e)
    \/ \E msg \in Texts :
          lastWrite.status # "BlockingIOError" /\ write_length(msg)
    \/ write_payload
    \/ Deliver
    \/ read
    \/ Congest
    \/ Drain

SpecNonblock == InitPass /\ [][NextNonblock]_vars

\* the listener and the clients that connect to it
NextServer ==
    \/ \E host \in Hosts, port \in Ports : server_connect(host, port)
    \/ server_setblocking
    \/ server_listen
    \/ Arrive
    \/ server_disconnect

SpecServer == InitPass /\ [][NextServer]_vars

\* calls of exact_test on testers of the three targets
NextTester ==
    \E target \in Targets, desired_output \in Values \cup {KeyName, Default},
       a \in Values, kw \in KwArgs :
        exact_test(target, desired_output, a, kw)

SpecTester == InitPass /\ [][NextTester]_vars

\* the reading end gathering bytes with recvall()
NextRecvall ==
    \/ \E e \in Ends : connect(e)
    \/ \E e \in Ends : disconnect(e)
    \/ \E msg \in Texts : write_length(msg)
    \/ write_payload
    \/ Deliver
    \/ \E length \in 0..MaxRecvLen : recvall_call(length)
    \/ recvall_loop

SpecRecvall == InitPass /\ [][NextRecvall]_vars

\* the worker thread
WorkerSteps ==
    \/ run_begin("thread")
    \/ run_check("thread")
    \/ run_work("thread")

\* the context that constructed the worker
CallerSteps ==
    \/ start
    \/ stop_thread
    \/ stop_thread_join
    \/ enter
    \/ run_begin("caller")
    \/ run_check("caller")
    \/ run_work("caller")
    \/ exit

NextThread == WorkerSteps \/ CallerSteps

SpecThread == Init /\ [][NextThread]_vars

\* every context that can take a step eventually takes one
FairSpecThread ==
    /\ SpecThread
    /\ WF_vars(WorkerSteps)
    /\ WF_vars(stop_thread_join)

\* a queue filled with add_task() and swept while time passes
NextSched ==
    \/ Tick
    \/ \E event_time \in Times, task \in Tasks :
          nadds < MaxAdds /\ add_task(event_time, task)
    \/ run_scheduled_tasks
    \/ sweep_check
    \/ sweep_task

SpecSched == InitPass /\ [][NextSched]_vars

\* delays and intervals of the timer calls
Delays == 0..MaxDelay

\* a queue filled with call_later() and call_periodic()
NextTimer ==
    \/ Tick
    \/ \E delay \in Delays, task \in Tasks :
          nadds < MaxAdds /\ call_later(delay, task)
    \/ \E delay \in Delays, interval \in Delays, task \in Tasks :
          nadds < MaxAdds /\ call_periodic(delay, interval, task)
    \/ run_scheduled_tasks
    \/ sweep_check
    \/ sweep_task

SpecTimer == InitPass /\ [][NextTimer]_vars

\* a queue of many events that are due or overdue at the time of the call:
\* two tasks, two due times
NextQueued ==
    \/ \E event_time \in {-1, 0}, task \in {"f0", "f1"} :
          nadds < MaxQueued /\ add_task(event_time, task)
    \/ run_scheduled_tasks
    \/ sweep_check
    \/ sweep_task

SpecQueued == InitPass /\ [][NextQueued]_vars

\* a queue of up to MaxHeap events of two tasks, swept while time passes
NextClocked ==
    \/ Tick
    \/ \E event_time \in Times, task \in {"f0", "f1"} :
          nadds < MaxHeap /\ add_task(event_time, task)
    \/ run_scheduled_tasks
    \/ sweep_check
    \/ sweep_task

SpecClocked == InitPass /\ [][NextClocked]_vars

\* a queue of up to MaxFailing events that are due or overdue, of a task
\* that returns and a task that raises
NextFailing ==
    \/ \E event_time \in {-1, 0}, task \in {"f0", "boom"} :
          nadds < MaxFailing /\ add_task(event_time, task)
    \/ run_scheduled_tasks
    \/ sweep_check
    \/ sweep_task

SpecFailing == InitPass /\ [][NextFailing]_vars

\* a queue filled with add_task(), call_later() and call_periodic() alike,
\* with a task that returns and a task that raises and with due times that
\* are past, now or to come; inner schedules its next occurrences on top of
\* the driver's calls
NextDriver ==
    \/ Tick
    \/ \E event_time \in {-1, 0}, task \in {"f0", "boom"} :
          nadds < MaxDriver /\ add_task(event_time, task)
    \/ \E delay \in Delays, task \in {"f0", "boom"} :
          nadds < MaxDriver /\ call_later(delay, task)
    \/ \E delay \in Delays, interval \in Delays, task \in {"f0", "boom"} :
          nadds < MaxDriver /\ call_periodic(delay, interval, task)
    \/ run_scheduled_tasks
    \/ sweep_check
    \/ sweep_task

SpecDriver == InitPass /\ [][NextDriver]_vars

\* one queue that a third thread fills while two threads sweep it
NextShared ==
    \/ Tick
    \/ \E event_time \in Times, task \in Tasks :
          nadds < MaxAdds /\ add_task(event_time, task)
    \/ \E c \in Sweepers : shared_call(c)
    \/ \E c \in Sweepers : shared_test(c)
    \/ \E c \in Sweepers : shared_pop(c)
    \/ \E c \in Sweepers : shared_task(c)

SpecShared == InitPass /\ [][NextShared]_vars

(***************************************************************************)
(* Properties                                                              *)
(***************************************************************************)
Range(seq) == {seq[i] : i \in 1..Len(seq)}

\* C1: when write(m) has returned, every byte of its frame has arrived and
\* nothing was taken from the stream yet, a read() at the other end returns
\* exactly m.
C1_RoundTrip ==
    ( /\ lastRead.status # "none"
      /\ lastRead.first
      /\ lastRead.nsent = 1
      /\ ~lastRead.disc
      /\ lastRead.avail = PrefixLen + Len(encode(sent[1])) )
    => (lastRead.status = "ok" /\ lastRead.value = sent[1])

\* C2: a call of run_scheduled_tasks never executes a task whose due time
\* is later than the clock reading taken at the start of that call.
C2_NoLateTask ==
    \A i \in 1..Len(sw.ran) : sw.ran[i].event_time <= sw.t

\* C3: distinct tasks scheduled for one and the same time are all accepted
\* by add_task, and a sweep at or after that time executes them in the
\* order in which they were scheduled.
C3_FIFO ==
    /\ lastAdd.uniform => lastAdd.status = "ok"
    /\ ( /\ sw.status = "returned"
         /\ sw.entry # <<>>
         /\ SameTimeDistinct(sw.entry, sw.entry[1].event_time)
         /\ sw.entry[1].event_time <= sw.t )
       => /\ Range(sw.ran) = Range(sw.entry)
          /\ \A i, j \in 1..Len(sw.ran) :
                i < j => sw.ran[i].seq < sw.ran[j].seq

\* C4: when a task raises inside run_scheduled_tasks, every other event
\* that was queued at the start of the call and due at the clock reading
\* taken then has still been executed by that call (events with different
\* due times).
C4_FailureIsolated ==
    ( /\ sw.status = "raised"
      /\ \A i, j \in 1..Len(sw.entry) :
            sw.entry[i].event_time = sw.entry[j].event_time => i = j )
    => \A i \in 1..Len(sw.entry) :
          sw.entry[i].event_time <= sw.t => sw.entry[i] \in Range(sw.ran)

\* C5: stop_thread sets the running flag to False before it joins, and
\* whenever it has returned the thread has ended: run() is over and the
\* thread is not alive.
C5_StopJoins ==
    /\ cpc = "join" => running = "False"
    /\ lastStop = "returned" =>
          /\ th = "dead"
          /\ bpc["thread"] \in {"returned", "raised"}
          /\ running = "False"

\* a stop_thread returned for a worker that loops until the flag falls
C5_Witness ==
    lastStop = "returned" /\ kind = "loop" /\ bpc["thread"] = "returned"

\* C6: a stop_thread on a started worker, whose run() tests the flag once
\* in every iteration and whose iterations end, eventually returns.
C6_StopReturns ==
    (cpc = "join" /\ th # "initial" /\ kind \in {"loop", "faulty"})
        ~> (lastStop = "returned")

\* C7: once the with-block has been left, stop_thread was called exactly
\* once for it, that call returned and the worker has stopped.
C7_ScopeExitStops ==
    scope = "left" =>
        (scopeStops = 1 /\ lastStop = "returned" /\ th = "dead")

\* C8: inside the with-block the worker has been started as a thread, and
\* run() is never executed by the calling context.
C8_EnterStarts ==
    /\ scope = "inside" => th # "initial"
    /\ bpc["caller"] = "none"

\* C9: no disconnect fails, the first as little as a repeated one, and after
\* each of them the handle of that end is closed.
C9_DisconnectIdempotent ==
    \A e \in Ends :
        Disconnected(e) => (lastDisc[e].status = "ok" /\ s_closed[e])

\* a second disconnect of the reading end and of the writing end
C9_Witness ==
    \A e \in Ends : lastDisc[e].status = "ok" /\ lastDisc[e].again

\* C10: a closed handle stays closed, and a read or a write that is called
\* after the disconnect of its end fails with EBADF (the handle is closed)
\* and moves no byte.
C10_ClosedFails ==
    [][ /\ \A e \in Ends : s_closed[e] => s_closed'[e]
        /\ (lastRead'.status # "none" /\ lastRead'.disc) =>
              (lastRead'.status = "EBADF" /\ lastRead'.taken = 0)
        /\ (lastWrite'.status # "none" /\ lastWrite'.disc) =>
              (lastWrite'.status = "EBADF" /\ lastWrite'.bytes = 0)
        /\ (lastRead' # lastRead /\ Disconnected("r")) =>
              (rbuf' = rbuf /\ wire' = wire)
        /\ (lastWrite' # lastWrite /\ wr.pc = "idle" /\ Disconnected("w")) =>
              (rbuf' = rbuf /\ wire' = wire)
      ]_vars

\* a read and a write have both been refused after a disconnect, on a pair
\* that had been connected
C10_Witness ==
    /\ connected
    /\ lastRead.status = "EBADF"
    /\ lastWrite.status = "EBADF"
    /\ lastWrite.disc

(***************************************************************************)
(* Properties of the frames on the stream                                  *)
(***************************************************************************)
\* everything the writing end has put on the stream and nobody has taken
Stream == rbuf \o wire

\* the payloads of the frames a byte string consists of, each frame being 8
\* bytes of big-endian length and that many bytes after them; bytes that are
\* no whole frame yield the payload <<-1>>, which no text encodes to
RECURSIVE Payloads(_)
Payloads(bytes) ==
    IF bytes = <<>> THEN <<>>
    ELSE IF Len(bytes) < PrefixLen THEN << <<-1>> >>
    ELSE LET n == BigEndian(SubSeq(bytes, 1, PrefixLen))
         IN  IF Len(bytes) < PrefixLen + n THEN << <<-1>> >>
             ELSE <<SubSeq(bytes, PrefixLen + 1, PrefixLen + n)>>
                  \o Payloads(SubSeq(bytes, PrefixLen + n + 1, Len(bytes)))

\* the bytes a read() needs to find for the frame that begins the byte string
FrameNeed(bytes) ==
    IF Len(bytes) < PrefixLen THEN PrefixLen
    ELSE PrefixLen + BigEndian(SubSeq(bytes, 1, PrefixLen))

\* C11: a read() that finds the prefix of a frame but less than the payload
\* it announces, the peer having closed and all it sent having arrived, ends
\* with the error PeerClosed.
C11_PeerClosed ==
    [][ ( /\ lastRead' # lastRead
          /\ connected /\ ~s_closed["r"]
          /\ s_closed["w"] /\ wire = <<>>
          /\ Len(rbuf) >= PrefixLen
          /\ Len(rbuf) < FrameNeed(rbuf) )
        => lastRead'.status = "PeerClosed"
      ]_vars

\* C12: the first read() that takes bytes from a stream on which one write
\* has returned succeeds and has taken exactly the 8 + N bytes of the frame,
\* in however many pieces the bytes arrive.
C12_ExactConsumption ==
    ( /\ lastRead.status # "none"
      /\ lastRead.first
      /\ lastRead.nsent = 1
      /\ ~lastRead.disc
      /\ lastRead.taken > 0 )
    => /\ lastRead.status = "ok"
       /\ lastRead.taken = PrefixLen + Len(encode(sent[1]))

\* C13: when the writes that were called have returned and nothing was taken
\* from the stream, the stream consists of one frame for each write, in the
\* order of the writes and nothing else: 8 bytes whose big-endian value is
\* the number of bytes of the UTF-8 encoding of the text, then those bytes.
C13_OneFrame ==
    ( /\ connected /\ ~consumed /\ ~s_closed["r"]
      /\ wr.pc = "idle" /\ lastWrite.status = "ok" )
    => Payloads(Stream) = [i \in 1..Len(sent) |-> encode(sent[i])]

\* the text of one two-byte character has been written: 8 bytes of prefix
\* with the value 2, and 2 bytes of payload
C13_Witness ==
    /\ lastWrite.status = "ok"
    /\ sent = << <<233>> >>
    /\ ~consumed /\ ~s_closed["r"]
    /\ Len(Stream) = PrefixLen + 2

\* C14: the frames are on the stream in the order of the writes, one whole
\* frame after the other (the one in progress last), and the first read() at
\* the other end, once the first frame has arrived, returns the text of the
\* first write.
C14_InOrder ==
    /\ ( /\ connected /\ ~consumed /\ ~s_closed["r"] /\ ~s_closed["w"] )
       => Payloads(Stream) =
            [i \in 1..Len(sent) |-> encode(sent[i])]
            \o (IF wr.pc # "payload" THEN <<>>
                ELSE IF encode(wr.msg) = <<>> THEN << <<>> >>
                ELSE << <<-1>> >>)
    /\ ( /\ lastRead.status # "none"
         /\ lastRead.first
         /\ ~lastRead.disc
         /\ lastRead.nsent >= 1
         /\ lastRead.avail >= PrefixLen + Len(encode(sent[1])) )
       => (lastRead.status = "ok" /\ lastRead.value = sent[1])

(***************************************************************************)
(* Properties of the scheduler                                             *)
(***************************************************************************)
\* C15: every event that a call of run_scheduled_tasks executes was in the
\* queue when the call began: an event that a task adds during the call is
\* not executed by that call.
C15_NotSameSweep ==
    \A i \in 1..Len(sw.ran) :
        \E j \in 1..Len(sw.entry) : sw.entry[j].seq = sw.ran[i].seq

\* C16: whenever an event is executed, no event that is pending at that
\* moment has a smaller due time.
C16_DueOrder ==
    sw.pc = "task" =>
        \A i \in 1..Len(events) :
            events[i].event_time >= sw.event.event_time

\* the places of the occurrences of the periodic task in a list of events
InnerEvents(evs) == {i \in 1..Len(evs) : evs[i].task = "inner"}

\* C17: call_periodic(delay, interval, task) leaves exactly one occurrence
\* in the queue, due at the clock reading of the call plus delay; and every
\* execution of an occurrence leaves exactly one occurrence in the queue,
\* due interval after the clock reading of that execution.
C17_Periodic ==
    [][ /\ (inner.task = "none" /\ inner'.task # "none") =>
             \E i \in InnerEvents(events') :
                 /\ InnerEvents(events') = {i}
                 /\ events'[i].event_time = clock + per'.delay
        /\ (sw.pc = "task" /\ sw.event.task = "inner" /\ sw'.pc # "task") =>
             \E i \in InnerEvents(events') :
                 /\ InnerEvents(events') = {i}
                 /\ events'[i].event_time = clock + inner.interval
      ]_vars

\* C18: when a call of run_scheduled_tasks returns that began after
\* call_periodic(delay, interval, task), the task has been executed at least
\* k times, for every k such that delay + (k-1)*interval, plus the lateness
\* the executions have accumulated, had elapsed since call_periodic when
\* the call began.
C18_AtLeastK ==
    [][ ( /\ inner.task # "none"
          /\ sw.pc = "check" /\ sw'.pc = "idle" /\ sw'.status = "returned" )
        => \A k \in 1..(MaxAdds + 1) :
              (per.at + per.delay + (k - 1) * inner.interval + per.drift
                  <= sw.t)
              => per.execs >= k
      ]_vars

\* C19: call_later(delay, task) adds one event, with the task and due at the
\* clock reading of the call plus delay, and no call of run_scheduled_tasks
\* that begins earlier than that executes the task.
C19_LaterIsAt ==
    [][ /\ lastLater'.seq # lastLater.seq =>
             /\ Len(events') = Len(events) + 1
             /\ \E i \in 1..Len(events') :
                   events'[i] = [event_time |-> clock + lastLater'.delay,
                                 task |-> lastLater'.task,
                                 seq |-> lastLater'.seq]
        /\ \A i \in 1..Len(sw'.ran) :
             sw'.ran[i].seq = lastLater'.seq =>
                 sw'.t >= lastLater'.at + lastLater'.delay
      ]_vars

(***************************************************************************)
(* Properties of the worker's lifecycle                                    *)
(***************************************************************************)
\* run() is being executed, by the thread or by the calling context
Executing ==
    \E ctx \in Contexts : bpc[ctx] \in {"begin", "check", "work", "hang"}

\* an execution of run() has ended: the thread has, or the one __enter__ made
BodyOver ==
    th = "dead" \/ scope \in {"inside", "exiting", "left", "enter_raised"}

\* the state of the lifecycle: Running while the body is executed and the
\* flag is not False, Stopping once the flag is False, Stopped when the body
\* has ended
Lifecycle ==
    IF Executing
    THEN (IF running = "False" THEN "Stopping" ELSE "Running")
    ELSE IF BodyOver THEN "Stopped"
    ELSE IF running = "False" THEN "Stopping"
    ELSE "Created"

LifecycleRank(state) ==
    CASE state = "Created" -> 0
      [] state = "Running" -> 1
      [] state = "Stopping" -> 2
      [] state = "Stopped" -> 3

\* C20: no step moves the worker backwards in Created -> Running ->
\* Stopping -> Stopped; in particular a Stopped worker stays Stopped.
C20_Lifecycle ==
    [][LifecycleRank(Lifecycle') >= LifecycleRank(Lifecycle)]_vars

(***************************************************************************)
(* Properties of stop_thread on bodies that do not end by the flag         *)
(***************************************************************************)
\* C21: for a worker whose body never tests the flag and never returns, a
\* stop_thread on the running worker never returns: the caller stays in
\* the join for ever and the thread never ends.
C21_HangBlocks ==
    [][kind = "hang" =>
          /\ th' # "dead"
          /\ lastStop' # "returned"
          /\ (cpc = "join" /\ th = "alive") => cpc' = "join"
      ]_vars

\* the caller is joining a started worker whose body hangs
C21_Witness ==
    kind = "hang" /\ cpc = "join" /\ th = "alive" /\ bpc["thread"] = "hang"

\* the worker thread has ended because an iteration of run() raised
BodyFailed ==
    bpc["thread"] = "raised"

Places(evs, seq) == {i \in 1..Len(evs) : evs[i].seq = seq}

\* C28: when run_scheduled_tasks has returned normally, no event that was
\* queued at the start of the call and due at the clock reading taken then
\* is still queued: the call has popped and executed each exactly once.
C28_DueAllRun ==
    sw.status = "returned" =>
        \A i \in 1..Len(sw.entry) :
            sw.entry[i].event_time <= sw.t =>
                /\ Places(events, sw.entry[i].seq) = {}
                /\ Cardinality(Places(sw.ran, sw.entry[i].seq)) = 1

\* C29: one call of run_scheduled_tasks executes at most as many tasks as
\* there were events queued at its start, also when a task schedules again
\* with delay 0 or a periodic task has interval 0, so the call ends.
C29_BoundedSweep ==
    Len(sw.ran) <= Len(sw.entry)

(***************************************************************************)
(* Properties of a scheduler shared by several threads                     *)
(***************************************************************************)
\* C23: when several threads schedule on and sweep one scheduler, no sweep
\* fails by popping from an empty heap, no event is executed before its due
\* time, and an event being executed is out of the queue and is executed
\* by one thread only.
C23_SharedSafe ==
    \A c \in Sweepers :
        /\ cs[c].status # "IndexError"
        /\ cs[c].pc = "task" =>
              /\ cs[c].event.event_time <= clock
              /\ Places(events, cs[c].event.seq) = {}
              /\ \A d \in Sweepers \ {c} :
                    cs[d].pc = "task" => cs[d].event.seq # cs[c].event.seq

(***************************************************************************)
(* Properties of what read() returns and of reads that find too little     *)
(***************************************************************************)
\* the text that bytes are the UTF-8 encoding of, for sequences of one and
\* two bytes; bytes that are no UTF-8 yield a text that holds -1
RECURSIVE Utf8Text(_)
Utf8Text(bytes) ==
    IF bytes = <<>> THEN <<>>
    ELSE IF bytes[1] < 128
    THEN <<bytes[1]>> \o Utf8Text(Tail(bytes))
    ELSE IF /\ bytes[1] \in 194..223
            /\ Len(bytes) >= 2
            /\ bytes[2] \in 128..191
    THEN <<(bytes[1] - 192) * 64 + (bytes[2] - 128)>>
         \o Utf8Text(SubSeq(bytes, 3, Len(bytes)))
    ELSE <<-1>>

C30_RetrySafe ==
    [][ ( /\ lastRead' # lastRead
          /\ connected /\ nonblock["r"]
          /\ ~s_closed["r"] /\ ~s_closed["w"]
          /\ ~consumed )
        => IF Len(rbuf) < FrameNeed(rbuf)
           THEN /\ lastRead'.status = "BlockingIOError"
                /\ rbuf' = rbuf
           ELSE lastRead.status = "BlockingIOError" =>
                   /\ lastRead'.status = "ok"
                   /\ lastRead'.value = sent[1]
      ]_vars

(***************************************************************************)
(* Properties of the non-blocking client and of the listener               *)
(***************************************************************************)
\* a call at end e would not return in the current state: a read() that
\* waits for bytes, a write() that waits for room
Suspends(e) ==
    IF e = "r" THEN Recv(PrefixLen).kind = "wait"
    ELSE "wait" \in SendallErrors

\* C24: from the return of connect on, the end that connected is
\* non-blocking: a read() or write() on it never waits, and where there is
\* nothing to read or no room to write the call ends with would-block.
C24_NonBlocking ==
    \A e \in Ends :
        (client = e /\ ~s_closed[e]) =>
            /\ nonblock[e]
            /\ ~Suspends(e)
            /\ (e = "r" /\ rbuf = <<>> /\ ~(s_closed["w"] /\ wire = <<>>))
                  => Recv(PrefixLen).kind = "wouldblock"
            /\ (e = "w" /\ full /\ ~s_closed["r"])
                  => SendallErrors = {"BlockingIOError"}
            /\ (e = "r" /\ lastRead.status = "BlockingIOError")
                  => lastRead.taken = 0

\* a read() of the client has ended with would-block
C24_Witness ==
    client = "r" /\ lastRead.status = "BlockingIOError" /\ rbuf = <<>>

\* C25: the listener has address reuse set before it is bound; once
\* TCPServer.connect(host, port) has returned it is bound to host and to
\* port, or to a port the system chose when port is 0, is non-blocking and
\* listens with a backlog of exactly 10; and it never accepts a client, a
\* queued connection only goes away when the listener itself is closed.
C25_Listener ==
    /\ [](srv.addr # NoAddr => srv.reuse)
    /\ []((srv.status = "ok" /\ ~srv.closed) =>
            /\ srv.listening
            /\ srv.backlog = 10
            /\ srv.nonblock
            /\ srv.addr.host = srv.req.host
            /\ IF srv.req.port = 0 THEN srv.addr.port \in Ephemeral
               ELSE srv.addr.port = srv.req.port)
    /\ [][srv'.pending < srv.pending => srv'.closed]_vars

\* a listener on a port the system chose, its backlog full
C25_Witness ==
    /\ srv.status = "ok" /\ ~srv.closed
    /\ srv.req.port = 0
    /\ srv.pending = 10

(***************************************************************************)
(* Properties of the tester                                                *)
(***************************************************************************)
\* C27: exact_test returns a true value exactly when the target, called
\* with the arguments given, returns a value equal to desired_output, and a
\* false value otherwise.
C27_ExactTest ==
    tt.status = "returned" =>
        LET r == target_call(tt.target, tt.a,
                             IF tt.kw = "absent" THEN Default ELSE tt.kw)
        IN  tt.result <=> (~r.raised /\ r.value = tt.desired_output)

(***************************************************************************)
(* Properties of writes that fail and of stop_thread on workers that do    *)
(* not run                                                                 *)
(***************************************************************************)
\* C31: whatever writes have returned or failed, the bytes put on an
\* untouched stream are whole frames: no write that failed has left a
\* length prefix without its full payload.
C31_WholeFrames ==
    (wr.pc = "idle" /\ connected /\ ~consumed /\ ~s_closed["r"]) =>
        \A i \in 1..Len(Payloads(Stream)) : Payloads(Stream)[i] # <<-1>>

\* C32: a stop_thread on a worker whose thread was never started, the one
\* that __exit__ makes for a with-block included, returns without raising.
C32_StopCreated ==
    [][(cpc = "join" /\ th = "initial" /\ cpc' = "idle")
          => lastStop' = "returned"]_vars

\* C33: stop_thread on a worker that has stopped already, a second
\* stop_thread for one, does not block and does not raise: the join finds
\* the thread ended and returns, the flag is False and the worker stays
\* stopped.
C33_StopIdempotent ==
    [][ /\ (cpc # "join" /\ cpc' = "join" /\ th = "dead") =>
              (running' = "False" /\ th' = "dead" /\ Join(th') = "ok")
        /\ (cpc = "join" /\ th = "dead" /\ cpc' = "idle") =>
              (lastStop' = "returned" /\ running' = "False" /\ th' = "dead")
      ]_vars

\* two stop_thread calls have returned for one worker
C33_Witness ==
    stops = 2 /\ th = "dead" /\ lastStop = "returned" /\ running = "False"

(***************************************************************************)
(* Properties of tasks that raise and of what the scheduling calls and the *)
(* sweeps leave in the queue                                               *)
(***************************************************************************)
\* C34: when the task of a periodic occurrence raises, the next occurrence
\* is scheduled all the same, interval after that execution.
C34_ChainSurvives ==
    [][ ( /\ sw.pc = "task" /\ sw.event.task = "inner"
          /\ TaskRaises(inner.task)
          /\ sw'.pc # "task" )
        => \E i \in InnerEvents(events') :
               events'[i].event_time = clock + inner.interval
      ]_vars

\* the list is a min-heap by due time: no event is due before its parent
IsHeap(evs) ==
    \A i \in 2..Len(evs) : evs[i \div 2].event_time <= evs[i].event_time

\* C35: when a task raises inside run_scheduled_tasks, its event is out of
\* the queue, every event that was queued at the start of the call and was
\* not executed is in the queue as it was, and the queue is a min-heap.
C35_RaiseKeepsQueue ==
    [][ (sw.pc = "task" /\ sw'.pc = "idle" /\ sw'.status = "raised")
        => /\ Places(events', sw.event.seq) = {}
           /\ \A i \in 1..Len(sw.entry) :
                 Places(sw'.ran, sw.entry[i].seq) = {} =>
                     \E j \in 1..Len(events') : events'[j] = sw.entry[i]
           /\ IsHeap(events')
      ]_vars

\* C38: run_scheduled_tasks leaves every event it does not execute in the
\* queue, with its due time and task: an event queued at the start of the
\* call has been executed, is being executed or is queued as it was; and a
\* loop test that finds the queue empty, or all of it due later, ends the
\* call without an error and changes nothing.
C38_SweepFrame ==
    /\ [](\A i \in 1..Len(sw.entry) :
             \/ sw.entry[i] \in Range(sw.ran)
             \/ sw.entry[i] = sw.event
             \/ \E j \in 1..Len(events) : events[j] = sw.entry[i])
    /\ [][ ( /\ sw.pc = "check" /\ sw'.pc # "check"
             /\ \A j \in 1..Len(events) : events[j].event_time > clock )
           => /\ sw'.status = "returned"
              /\ sw'.ran = sw.ran
              /\ events' = events
         ]_vars

\* the numbers of the events in a list
Seqs(evs) == {evs[i].seq : i \in 1..Len(evs)}

\* C36: an event is executed at most once, whatever scheduling calls and
\* sweeps follow one another: the sweep takes an event out of the queue
\* before it runs the task, it runs the task of the event it took out, no
\* event is queued twice and an event that has left the queue never enters
\* it again.
C36_AtMostOnce ==
    [][ /\ \A s \in 1..nadds :
              s \notin Seqs(events) => s \notin Seqs(events')
        /\ \A i, j \in 1..Len(events') :
              events'[i].seq = events'[j].seq => i = j
        /\ (sw.pc = "check" /\ sw'.pc = "task") =>
              /\ sw'.event.seq \in Seqs(events)
              /\ sw'.event.seq \notin Seqs(events')
        /\ (sw.pc = "task" /\ sw'.pc # "task") =>
              sw'.ran = Append(sw.ran, sw.event)
      ]_vars

\* a sweep has executed two one-shot events, one queued by add_task and one
\* by call_later, and has returned
C36_Witness ==
    /\ sw.status = "returned"
    /\ Len(sw.ran) = 2
    /\ \A i \in 1..2 : sw.ran[i].task = "f0"
    /\ lastLater.seq \in Seqs(sw.ran)
    /\ inner.task = "none"

\* C37: the queue never holds more than one occurrence of the periodic task
\* that one call_periodic registered.
C37_OneOccurrence ==
    Cardinality(InnerEvents(events)) <= 1

\* the periodic task has been executed and its next occurrence is queued
C37_Witness ==
    per.execs >= 1 /\ Cardinality(InnerEvents(events)) = 1

\* C39: add_task, call_later and call_periodic execute no task, also for a
\* delay of 0 or a due time in the past: a call by the driver adds exactly
\* one event, leaves every queued event as it was and leaves the record of
\* executions alone; an execution is only ever a step of a sweep.
C39_ScheduleOnlyQueues ==
    [][ /\ (sw.pc = "idle" /\ nadds' = nadds + 1) =>
              /\ sw' = sw
              /\ per'.execs = per.execs
              /\ Len(events') = Len(events) + 1
              /\ \E k \in 1..Len(events') :
                    /\ events'[k].seq = nadds + 1
                    /\ \A i \in 1..Len(events) :
                          \E j \in 1..Len(events') \ {k} :
                              events'[j] = events[i]
        /\ (sw'.ran # sw.ran /\ sw'.ran # <<>>) => sw.pc = "task"
      ]_vars

\* an event whose due time is past and the first occurrence of a periodic
\* task of delay 0 are queued, and no sweep has been called
C39_Witness ==
    /\ sw.status = "none"
    /\ Len(events) = 2
    /\ \E i \in 1..2 : events[i].event_time < clock
    /\ inner.task # "none" /\ per.delay = 0

====
